---------------------------- MODULE Spec2Model ----------------------------
(* Model of ml-service/prepare_colab_dataset.py: main() calling            *)
(* create_colab_dataset(), a linear sequence of filesystem operations.      *)
(*                                                                          *)
(* The filesystem is a set of directories (dirs) and a map from file paths  *)
(* to contents (fs).  A path is a sequence of names relative to the         *)
(* invocation directory.  A content is a sequence of text atoms; the atoms  *)
(* of data.yaml are chosen so that every occurrence of one of the replaced  *)
(* literals starts and ends on an atom boundary.  The two zip files are     *)
(* kept apart from fs because their content is a map from archive names to  *)
(* contents.                                                                *)
EXTENDS Naturals, Sequences, FiniteSets

VARIABLES
    fs,        \* file path -> content, every regular file except the two zips
    dirs,      \* the directories that exist
    bundle,    \* dataset/images/train/train/images.zip: [exists, entries]
    archive,   \* colab_dataset.zip: [exists, entries]
    pc,        \* position of the process in main / create_colab_dataset
    run,       \* number of calls of main started so far
    exc,       \* step that raised in the current (or last) run, "" if none
    log,       \* messages printed by the current (or last) run
    trace,     \* filesystem operations performed by the current (or last) run
    archive0,  \* colab_dataset.zip as it was when the current run started
    copied     \* per run that reached the archive step without raising: the
               \* image files of the destination tree when it was archived

vars == <<fs, dirs, bundle, archive, pc, run, exc, log, trace, archive0, copied>>

-----------------------------------------------------------------------------
(* Bounds of the model *)

MaxRuns == 2      \* calls of main in one behaviour
MaxImages == 2    \* .jpg files in the source folders at the start
MaxLines == 3     \* lines of data.yaml in SpecYaml
MaxPartial == 1   \* entries in an archive whose writing raised

-----------------------------------------------------------------------------
(* Paths *)

source_base == <<"dataset", "images", "train">>
source_train == source_base \o <<"train", "images">>
source_valid == source_base \o <<"valid", "images">>
source_test == source_base \o <<"test", "images">>
source_data_yaml == source_base \o <<"data.yaml">>

colab_dir == <<"colab_dataset">>
colab_images == colab_dir \o <<"images">>
colab_train == colab_images \o <<"train", "images">>
colab_valid == colab_images \o <<"valid", "images">>
colab_test == colab_images \o <<"test", "images">>
data_yaml_path == colab_dir \o <<"data.yaml">>

yolov8m_path == <<"yolov8m.pt">>

Splits == {"train", "valid", "test"}

SourceOf(s) ==
    CASE s = "train" -> source_train
      [] s = "valid" -> source_valid
      [] s = "test" -> source_test

ColabOf(s) ==
    CASE s = "train" -> colab_train
      [] s = "valid" -> colab_valid
      [] s = "test" -> colab_test

-----------------------------------------------------------------------------
(* pathlib / shutil helpers *)

Last(p) == p[Len(p)]

Parent(p) == SubSeq(p, 1, Len(p) - 1)

IsUnder(p, d) == Len(p) >= Len(d) /\ SubSeq(p, 1, Len(d)) = d

Exists(d, f, p) == p \in d \/ p \in DOMAIN f

\* The file names of the model that end in ".jpg".
JpgNames == {"a.jpg", "b.jpg", "old.jpg"}

\* Path.glob("*.jpg"): the direct children of dir whose name matches.
Glob(d, f, dir) ==
    {p \in (DOMAIN f) \cup d :
        Len(p) = Len(dir) + 1 /\ Parent(p) = dir /\ Last(p) \in JpgNames}

\* Path.rglob("*") filtered by is_file(): every regular file below dir.
RGlobFiles(f, dir) == {p \in DOMAIN f : IsUnder(p, dir) /\ p # dir}

\* Path.relative_to(base)
RelativeTo(p, base) == SubSeq(p, Len(base) + 1, Len(p))

Prefixes(p) == {SubSeq(p, 1, n) : n \in 1..Len(p)}

\* Path.mkdir(parents=True, exist_ok=True)
Mkdir(d, p) == d \cup Prefixes(p)

RmtreeDirs(d, p) == {q \in d : ~IsUnder(q, p)}

RmtreeFiles(f, p) == [q \in {r \in DOMAIN f : ~IsUnder(r, p)} |-> f[q]]

\* The path shutil.copy2(src, dst) writes: dst/basename(src) when dst is a
\* directory, dst itself otherwise.
CopyTarget(d, src, dst) == IF dst \in d THEN dst \o <<Last(src)>> ELSE dst

WriteFile(f, p, c) == [q \in (DOMAIN f) \cup {p} |-> IF q = p THEN c ELSE f[q]]

Copy2(d, f, src, dst) == WriteFile(f, CopyTarget(d, src, dst), f[src])

\* for img_file in srcs: shutil.copy2(img_file, dst)
CopyAll(d, f, srcs, dst) ==
    LET tgt(p) == CopyTarget(d, p, dst)
        new == {tgt(p) : p \in srcs}
    IN [q \in (DOMAIN f) \cup new |->
            IF q \in new THEN f[CHOOSE p \in srcs : tgt(p) = q] ELSE f[q]]

\* ZipFile.extractall(target): every entry is written below target, its
\* parent directories created.
ExtractFiles(f, entries, names, target) ==
    [q \in (DOMAIN f) \cup {target \o n : n \in names} |->
        IF \E n \in names : q = target \o n
        THEN entries[CHOOSE n \in names : q = target \o n]
        ELSE f[q]]

ExtractDirs(d, names, target) ==
    d \cup UNION {Prefixes(Parent(target \o n)) : n \in names}

-----------------------------------------------------------------------------
(* Text of data.yaml and str.replace *)

OldTrain == <<"train: ", "train/images">>
NewTrain == <<"train: ", "images/", "train/images">>
OldVal == <<"val: ", "valid/images">>
NewVal == <<"val: ", "images/", "valid/images">>
OldTest == <<"test: ", "test/images">>
NewTest == <<"test: ", "images/", "test/images">>

NL == "\n"

StartsWith(s, t) == Len(s) >= Len(t) /\ SubSeq(s, 1, Len(t)) = t

\* str.replace(old, new): the non-overlapping occurrences of old, found from
\* left to right, are replaced by new.
RECURSIVE Replace(_, _, _)
Replace(s, old, new) ==
    IF Len(s) < Len(old) THEN s
    ELSE IF StartsWith(s, old)
         THEN new \o Replace(SubSeq(s, Len(old) + 1, Len(s)), old, new)
         ELSE <<Head(s)>> \o Replace(Tail(s), old, new)

\* Mutant of RewritePaths: the replacement of the test path is left out.
RewritePaths_two(content) ==
    Replace(Replace(content, OldTrain, NewTrain), OldVal, NewVal)

\* Mutant of RewritePaths: the folder names are replaced wherever they occur,
\* not only after their key.
RewritePaths_loose(content) ==
    Replace(Replace(Replace(content, <<"train/images">>,
                            <<"images/", "train/images">>),
                    <<"valid/images">>, <<"images/", "valid/images">>),
            <<"test/images">>, <<"images/", "test/images">>)

\* The three replacements of lines 93-95, in the order of the code.
RewritePaths(content) ==
    Replace(Replace(Replace(content, OldTrain, NewTrain), OldVal, NewVal),
            OldTest, NewTest)

-----------------------------------------------------------------------------
(* Order of the steps of create_colab_dataset *)

Steps == <<"reset", "expand", "copy_train", "copy_valid", "copy_test",
           "config", "weights", "archive", "cleanup", "report">>

StepSet == {Steps[i] : i \in 1..Len(Steps)}

Rank(s) == CHOOSE i \in 1..Len(Steps) : Steps[i] = s

\* Mutant of After: the destination tree is removed before it is archived.
After_swapped(s) ==
    CASE s = "weights" -> "cleanup"
      [] s = "cleanup" -> "archive"
      [] s = "archive" -> "report"
      [] s = "report" -> "return"
      [] OTHER -> Steps[Rank(s) + 1]

\* The statement that follows step s when s completes without raising.
After(s) == IF Rank(s) = Len(Steps) THEN "return" ELSE Steps[Rank(s) + 1]

-----------------------------------------------------------------------------
(* Initial filesystems *)

NoZip == [exists |-> FALSE, entries |-> <<>>]

\* images.zip made by zipping the images folder, and one made from inside it.
NestedBundle ==
    [exists |-> TRUE,
     entries |-> [n \in {<<"images", "b.jpg">>} |-> <<"zipped", "b.jpg">>]]
FlatBundle ==
    [exists |-> TRUE,
     entries |-> [n \in {<<"b.jpg">>} |-> <<"zipped", "b.jpg">>]]

\* What an earlier run may have left behind.
StaleFiles == {colab_train \o <<"old.jpg">>, data_yaml_path}
StaleZip ==
    [exists |-> TRUE,
     entries |-> [n \in {data_yaml_path} |-> <<"stale">>]]

Join(lines) ==
    LET RECURSIVE J(_)
        J(i) == IF i > Len(lines) THEN <<>>
                ELSE IF i = Len(lines) THEN lines[i]
                ELSE lines[i] \o <<NL>> \o J(i + 1)
    IN J(1)

WellFormedYaml == Join(<<OldTrain, OldVal, OldTest, <<"nc: 2">>>>)
\* The layout of a dataset export whose paths start with "../".
DottedYaml ==
    Join(<<<<"train: ", "../", "train/images">>,
           <<"val: ", "../", "valid/images">>,
           <<"test: ", "../", "test/images">>>>)

LinePool ==
    {OldTrain, OldVal, OldTest,
     <<"train: ", "../", "train/images">>,
     <<"# ", "test: ", "test/images">>,
     <<"nc: 2">>}

YamlTexts ==
    {Join(ls) : ls \in UNION {[1..n -> LinePool] : n \in 0..MaxLines}}

SourceImages ==
    {SourceOf(s) \o <<"a.jpg">> : s \in Splits} \cup {source_train \o <<"b.jpg">>}

InitContent(p, yaml) ==
    IF p = source_data_yaml THEN yaml
    ELSE IF IsUnder(p, colab_dir) THEN <<"stale">>
    ELSE <<"bytes">> \o p

\* The state before the first call of main: E the split folders that exist, F
\* the images in them, b the bundle, hasYaml/yaml the configuration file, w the
\* weights file, stale whether an earlier run left its destination tree and
\* its archive behind.
InitWith(E, F, b, hasYaml, yaml, w, stale) ==
    LET notes == IF "train" \in E THEN {source_train \o <<"notes.txt">>} ELSE {}
        files == F \cup notes
                   \cup (IF hasYaml THEN {source_data_yaml} ELSE {})
                   \cup (IF w THEN {yolov8m_path} ELSE {})
                   \cup (IF stale THEN StaleFiles ELSE {})
    IN /\ fs = [p \in files |-> InitContent(p, yaml)]
       /\ dirs = Prefixes(source_base)
                   \cup UNION {Prefixes(SourceOf(s)) : s \in E}
                   \cup (IF b.exists THEN Prefixes(Parent(source_train)) ELSE {})
                   \cup (IF stale THEN Prefixes(colab_train) ELSE {})
       /\ bundle = b
       /\ archive = (IF stale THEN StaleZip ELSE NoZip)
       /\ pc = "idle"
       /\ exc = ""
       /\ log = <<>>
       /\ trace = <<>>
       /\ archive0 = archive
       /\ copied = <<>>

Init ==
    \E E \in SUBSET Splits, F \in SUBSET SourceImages,
       b \in {NoZip, NestedBundle, FlatBundle},
       y \in {<<>>, WellFormedYaml},
       w \in BOOLEAN, stale \in BOOLEAN :
        /\ Cardinality(F) <= MaxImages
        /\ \A p \in F : Last(p) = "b.jpg" => (Parent(p) \o <<"a.jpg">>) \in F
        /\ \A p \in F : \E s \in E : Parent(p) = SourceOf(s)
        /\ InitWith(E, F, b, y # <<>>, y, w, stale)
        /\ run = 0

\* The last call of main that the model follows, on a small tree, for every
\* text of data.yaml.
InitYaml ==
    \E y \in YamlTexts, stale \in BOOLEAN :
        /\ InitWith({"train"}, {source_train \o <<"a.jpg">>}, NestedBundle,
                    TRUE, y, TRUE, stale)
        /\ run = MaxRuns - 1

-----------------------------------------------------------------------------
(* main and the steps of create_colab_dataset *)

\* main, line 139: the call of create_colab_dataset.
MainCall ==
    /\ pc = "idle"
    /\ run < MaxRuns
    /\ run' = run + 1
    /\ pc' = Steps[1]
    /\ exc' = ""
    /\ log' = <<"preparing">>
    /\ trace' = <<>>
    /\ archive0' = archive
    /\ UNCHANGED <<fs, dirs, bundle, archive, copied>>

\* Lines 40-41: the directories and files left by rmtree of an existing
\* colab_dataset.
CleanedDirs(d, f) ==
    IF Exists(d, f, colab_dir) THEN RmtreeDirs(d, colab_dir) ELSE d

\* Mutant of CleanedFiles: an existing colab_dataset is not removed.
CleanedFiles_keep(d, f) == f

CleanedFiles(d, f) ==
    IF Exists(d, f, colab_dir) THEN RmtreeFiles(f, colab_dir) ELSE f

\* Lines 45-47
MadeDirs(d) == Mkdir(Mkdir(Mkdir(d, colab_train), colab_valid), colab_test)

\* Mutant of ResetDestination: the old colab_dataset.zip is removed as well.
ResetDestination_rmzip ==
    /\ pc = "reset"
    /\ dirs' = MadeDirs(CleanedDirs(dirs, fs))
    /\ fs' = CleanedFiles(dirs, fs)
    /\ archive' = NoZip
    /\ log' = log \o (IF Exists(dirs, fs, colab_dir) THEN <<"cleaned">> ELSE <<>>)
    /\ trace' = Append(trace, "reset")
    /\ pc' = After("reset")
    /\ UNCHANGED <<bundle, run, exc, archive0, copied>>

\* Lines 39-47: clean up any existing colab_dataset, create the structure.
ResetDestination ==
    /\ pc = "reset"
    /\ dirs' = MadeDirs(CleanedDirs(dirs, fs))
    /\ fs' = CleanedFiles(dirs, fs)
    /\ log' = log \o (IF Exists(dirs, fs, colab_dir) THEN <<"cleaned">> ELSE <<>>)
    /\ trace' = Append(trace, "reset")
    /\ pc' = After("reset")
    /\ UNCHANGED <<bundle, archive, run, exc, archive0, copied>>

\* Lines 51-54: the bundle is looked for only inside the branch taken when
\* the training images folder exists.
ShouldExpand(d, f, b) == Exists(d, f, source_train) /\ b.exists

\* Line 57: extractall(source_train.parent)
ExtractTarget == Parent(source_train)

\* Lines 51-58: extract images.zip.
ExpandBundle ==
    /\ pc = "expand"
    /\ IF ShouldExpand(dirs, fs, bundle)
       THEN /\ fs' = ExtractFiles(fs, bundle.entries, DOMAIN bundle.entries,
                                  ExtractTarget)
            /\ dirs' = ExtractDirs(dirs, DOMAIN bundle.entries, ExtractTarget)
            /\ log' = log \o <<"copying_train", "extracting", "extracted">>
            /\ trace' = Append(trace, "expand")
       ELSE /\ log' = Append(log, "copying_train")
            /\ UNCHANGED <<fs, dirs, trace>>
    /\ pc' = After("expand")
    /\ UNCHANGED <<bundle, archive, run, exc, archive0, copied>>

StepOf(s) ==
    CASE s = "train" -> "copy_train"
      [] s = "valid" -> "copy_valid"
      [] s = "test" -> "copy_test"

\* Mutant of ToCopy: the pattern "*" instead of "*.jpg".
ToCopy_any(d, f, s) ==
    {p \in DOMAIN f : Len(p) = Len(SourceOf(s)) + 1 /\ Parent(p) = SourceOf(s)}

\* Lines 60, 68, 76: the files the loop of split s copies.
ToCopy(d, f, s) == Glob(d, f, SourceOf(s))

\* Mutant of CopySplit: no test that the folder exists; listing a folder
\* that does not exist raises.
CopySplit_strict(s) ==
    /\ pc = StepOf(s)
    /\ IF Exists(dirs, fs, SourceOf(s))
       THEN /\ ToCopy(dirs, fs, s) \subseteq DOMAIN fs
            /\ fs' = CopyAll(dirs, fs, ToCopy(dirs, fs, s), ColabOf(s))
            /\ log' = Append(log, "copied_" \o s)
            /\ trace' = Append(trace, StepOf(s))
            /\ pc' = After(StepOf(s))
            /\ UNCHANGED exc
       ELSE /\ exc' = StepOf(s)
            /\ trace' = Append(trace, StepOf(s))
            /\ pc' = "except"
            /\ UNCHANGED <<fs, log>>
    /\ UNCHANGED <<dirs, bundle, archive, run, archive0, copied>>

\* Lines 60-64, 66-72, 74-80: copy the images of one split, or warn.
CopySplit(s) ==
    /\ pc = StepOf(s)
    /\ IF Exists(dirs, fs, SourceOf(s))
       THEN /\ ToCopy(dirs, fs, s) \subseteq DOMAIN fs
            /\ fs' = CopyAll(dirs, fs, ToCopy(dirs, fs, s), ColabOf(s))
            /\ log' = Append(log, "copied_" \o s)
            /\ trace' = Append(trace, StepOf(s))
       ELSE /\ log' = Append(log, "warn_" \o s)
            /\ UNCHANGED <<fs, trace>>
    /\ pc' = After(StepOf(s))
    /\ UNCHANGED <<dirs, bundle, archive, run, exc, archive0, copied>>

\* Lines 85-98: data.yaml copied, read, rewritten and written back.
WithDataYaml(d, f) ==
    LET c == Copy2(d, f, source_data_yaml, data_yaml_path)
    IN WriteFile(c, data_yaml_path, RewritePaths(c[data_yaml_path]))

\* Lines 83-102: copy and modify data.yaml, or report that it is missing.
SetupDataYaml ==
    /\ pc = "config"
    /\ IF Exists(dirs, fs, source_data_yaml)
       THEN /\ fs' = WithDataYaml(dirs, fs)
            /\ log' = log \o <<"yaml_setup", "yaml_updated">>
            /\ trace' = Append(trace, "config")
       ELSE /\ log' = Append(log, "yaml_missing")
            /\ UNCHANGED <<fs, trace>>
    /\ pc' = After("config")
    /\ UNCHANGED <<dirs, bundle, archive, run, exc, archive0, copied>>

\* Lines 105-108: copy the model weights if they exist.
CopyWeights ==
    /\ pc = "weights"
    /\ IF Exists(dirs, fs, yolov8m_path)
       THEN /\ fs' = Copy2(dirs, fs, yolov8m_path, colab_dir)
            /\ log' = Append(log, "weights_copied")
            /\ trace' = Append(trace, "weights")
       ELSE UNCHANGED <<fs, log, trace>>
    /\ pc' = After("weights")
    /\ UNCHANGED <<dirs, bundle, archive, run, exc, archive0, copied>>

\* Lines 115-118: the entries written for the files in the set files, named
\* relative to colab_dir.parent.
ZipOf(f, files) ==
    [exists |-> TRUE,
     entries |-> [a \in {RelativeTo(p, Parent(colab_dir)) : p \in files} |->
                     f[Parent(colab_dir) \o a]]]

\* The image files of the destination tree.
DestImages(f) == [p \in RGlobFiles(f, colab_images) |-> f[p]]

\* Lines 111-118: create colab_dataset.zip from the destination tree.
CreateZip ==
    /\ pc = "archive"
    /\ archive' = ZipOf(fs, RGlobFiles(fs, colab_dir))
    /\ copied' = Append(copied, DestImages(fs))
    /\ log' = Append(log, "creating_zip")
    /\ trace' = Append(trace, "archive")
    /\ pc' = After("archive")
    /\ UNCHANGED <<fs, dirs, bundle, run, exc, archive0>>

\* Mutant of CleanUp: the destination tree is left in place.
CleanUp_skip ==
    /\ pc = "cleanup"
    /\ log' = Append(log, "cleaned_tmp")
    /\ trace' = Append(trace, "cleanup")
    /\ pc' = After("cleanup")
    /\ UNCHANGED <<fs, dirs, bundle, archive, run, exc, archive0, copied>>

\* Lines 121-122: remove the destination tree.
CleanUp ==
    /\ pc = "cleanup"
    /\ dirs' = RmtreeDirs(dirs, colab_dir)
    /\ fs' = RmtreeFiles(fs, colab_dir)
    /\ log' = Append(log, "cleaned_tmp")
    /\ trace' = Append(trace, "cleanup")
    /\ pc' = After("cleanup")
    /\ UNCHANGED <<bundle, archive, run, exc, archive0, copied>>

\* Lines 125-135: print the size, the number of entries and the next steps.
Report ==
    /\ pc = "report"
    /\ log' = log \o <<"zip_size", "contents", "complete">>
    /\ trace' = Append(trace, "report")
    /\ pc' = After("report")
    /\ UNCHANGED <<fs, dirs, bundle, archive, run, exc, archive0, copied>>

\* Where main is once its try statement has ended, either way.
Returned == "idle"

\* main, line 140: create_colab_dataset returned.
MainSuccess ==
    /\ pc = "return"
    /\ log' = Append(log, "success")
    /\ pc' = Returned
    /\ UNCHANGED <<fs, dirs, bundle, archive, run, exc, trace, archive0, copied>>

\* Mutant of MainExcept: the handler starts the sequence again.
MainExcept_retry ==
    /\ pc = "except"
    /\ log' = log \o <<"error", "hints">>
    /\ pc' = Steps[1]
    /\ UNCHANGED <<fs, dirs, bundle, archive, run, exc, trace, archive0, copied>>

\* main, lines 141-146: the exception is caught and reported, not re-raised.
MainExcept ==
    /\ pc = "except"
    /\ log' = log \o <<"error", "hints">>
    /\ pc' = Returned
    /\ UNCHANGED <<fs, dirs, bundle, archive, run, exc, trace, archive0, copied>>

-----------------------------------------------------------------------------
(* Exceptions: an operation on the filesystem may raise (permission denied, *)
(* disk full, ...).  The step stops where it is, with what it has done so   *)
(* far, and control passes to the handler of main.                          *)

\* Whether step s calls an operation that can raise in the current state.
DoesIO(s) ==
    CASE s = "reset" -> TRUE
      [] s = "expand" -> ShouldExpand(dirs, fs, bundle)
      [] s = "copy_train" -> Exists(dirs, fs, source_train)
      [] s = "copy_valid" -> Exists(dirs, fs, source_valid)
      [] s = "copy_test" -> Exists(dirs, fs, source_test)
      [] s = "config" -> Exists(dirs, fs, source_data_yaml)
      [] s = "weights" -> Exists(dirs, fs, yolov8m_path)
      [] s = "archive" -> TRUE
      [] s = "cleanup" -> TRUE
      [] s = "report" -> TRUE

\* The handler a raising step passes control to (main, line 141).
Handler == "except"

Raised(s) ==
    /\ pc = s
    /\ DoesIO(s)
    /\ exc' = s
    /\ trace' = Append(trace, s)
    /\ pc' = Handler
    /\ UNCHANGED <<bundle, run, log, archive0, copied>>

\* rmtree raises (nothing removed), or a mkdir raises after it.
RaiseReset ==
    /\ Raised("reset")
    /\ \/ UNCHANGED <<fs, dirs>>
       \/ /\ dirs' = CleanedDirs(dirs, fs)
          /\ fs' = CleanedFiles(dirs, fs)
    /\ UNCHANGED archive

\* extractall raises after some of the entries.
RaiseExpand ==
    /\ Raised("expand")
    /\ \E N \in SUBSET DOMAIN bundle.entries :
          /\ fs' = ExtractFiles(fs, bundle.entries, N, ExtractTarget)
          /\ dirs' = ExtractDirs(dirs, N, ExtractTarget)
    /\ UNCHANGED archive

\* glob or a copy2 raises after some of the files.
RaiseCopy(s) ==
    /\ Raised(StepOf(s))
    /\ \E C \in SUBSET (ToCopy(dirs, fs, s) \cap DOMAIN fs) :
          fs' = CopyAll(dirs, fs, C, ColabOf(s))
    /\ UNCHANGED <<dirs, archive>>

\* copy2 raises, or the rewrite raises after the verbatim copy.
RaiseConfig ==
    /\ Raised("config")
    /\ \/ UNCHANGED fs
       \/ fs' = Copy2(dirs, fs, source_data_yaml, data_yaml_path)
    /\ UNCHANGED <<dirs, archive>>

RaiseWeights ==
    /\ Raised("weights")
    /\ UNCHANGED <<fs, dirs, archive>>

\* ZipFile cannot be opened, or a write raises after some of the files: the
\* with statement closes the archive with the entries written so far.
RaiseZip ==
    /\ Raised("archive")
    /\ \/ UNCHANGED archive
       \/ \E W \in SUBSET RGlobFiles(fs, colab_dir) :
             /\ W # RGlobFiles(fs, colab_dir)
             /\ Cardinality(W) <= MaxPartial
             /\ archive' = ZipOf(fs, W)
    /\ UNCHANGED <<fs, dirs>>

RaiseCleanUp ==
    /\ Raised("cleanup")
    /\ UNCHANGED <<fs, dirs, archive>>

RaiseReport ==
    /\ Raised("report")
    /\ UNCHANGED <<fs, dirs, archive>>

Next ==
    \/ MainCall
    \/ ResetDestination
    \/ ExpandBundle
    \/ \E s \in Splits : CopySplit(s)
    \/ SetupDataYaml
    \/ CopyWeights
    \/ CreateZip
    \/ CleanUp
    \/ Report
    \/ MainSuccess
    \/ MainExcept
    \/ RaiseReset
    \/ RaiseExpand
    \/ \E s \in Splits : RaiseCopy(s)
    \/ RaiseConfig
    \/ RaiseWeights
    \/ RaiseZip
    \/ RaiseCleanUp
    \/ RaiseReport

Spec == Init /\ [][Next]_vars

SpecYaml == InitYaml /\ [][Next]_vars

-----------------------------------------------------------------------------
(* Vocabulary of the properties *)

InLog(m) == \E i \in 1..Len(log) : log[i] = m

Attempted(s) == \E i \in 1..Len(trace) : trace[i] = s

\* main has returned from a call in which nothing raised.
Succeeded == pc = "idle" /\ InLog("success")

\* main has returned from a call in which step exc raised.
Failed == pc = "idle" /\ exc # ""

ArcName(p) == RelativeTo(p, Parent(colab_dir))

InArchive(p, c) ==
    /\ archive.exists
    /\ ArcName(p) \in DOMAIN archive.entries
    /\ archive.entries[ArcName(p)] = c

SourceJpgs(s) == Glob(dirs, fs, SourceOf(s))

\* Every .jpg of the source folder of split s is in the archive, below the
\* destination folder of s, with the content of the source file.
ImagesArchived(s) ==
    \A p \in SourceJpgs(s) : InArchive(ColabOf(s) \o <<Last(p)>>, fs[p])

Contains(s, t) ==
    \E i \in 0..(Len(s) - Len(t)) : SubSeq(s, i + 1, i + Len(t)) = t

ContainsOld(s) ==
    Contains(s, OldTrain) \/ Contains(s, OldVal) \/ Contains(s, OldTest)

\* str.splitlines on the atoms: the lines of a text.
RECURSIVE SplitLines(_)
SplitLines(s) ==
    IF \A i \in 1..Len(s) : s[i] # NL THEN <<s>>
    ELSE LET k == CHOOSE i \in 1..Len(s) :
                      s[i] = NL /\ \A j \in 1..(i - 1) : s[j] # NL
         IN <<SubSeq(s, 1, k - 1)>> \o SplitLines(SubSeq(s, k + 1, Len(s)))

-----------------------------------------------------------------------------
(* C1 *)

WeightsCount == IF Exists(dirs, fs, yolov8m_path) THEN 1 ELSE 0

\* C1: after a run in which nothing raised, on a source tree that holds N
\* train, M validation and K test .jpg files when the run copies them and a
\* data.yaml, colab_dataset.zip has exactly N+M+K+1 entries, one more when
\* yolov8m.pt is present, and every image is in it with the content of its
\* source file.
C1_ArchiveCount ==
    (Succeeded /\ Exists(dirs, fs, source_data_yaml)) =>
        /\ archive.exists
        /\ Cardinality(DOMAIN archive.entries) =
              Cardinality(SourceJpgs("train")) + Cardinality(SourceJpgs("valid"))
                + Cardinality(SourceJpgs("test")) + 1 + WeightsCount
        /\ \A s \in Splits : ImagesArchived(s)

\* A run on a tree with images in two splits, a non-image file, data.yaml
\* and the weights has succeeded; its archive holds the two images.
C1_Witness ==
    /\ Succeeded
    /\ Exists(dirs, fs, source_data_yaml)
    /\ Exists(dirs, fs, yolov8m_path)
    /\ Exists(dirs, fs, source_train \o <<"notes.txt">>)
    /\ SourceJpgs("train") # {}
    /\ SourceJpgs("valid") # {}
    /\ Cardinality(DOMAIN archive.entries) >= 4
    /\ InArchive(colab_train \o <<"a.jpg">>, <<"bytes">> \o source_train \o <<"a.jpg">>)

-----------------------------------------------------------------------------
(* C2 *)

SourceYaml == fs[source_data_yaml]

ArchivedYaml == archive.entries[ArcName(data_yaml_path)]

YamlArchived ==
    /\ Succeeded
    /\ Exists(dirs, fs, source_data_yaml)
    /\ archive.exists
    /\ ArcName(data_yaml_path) \in DOMAIN archive.entries

HasNoOldToken(s) == ~ContainsOld(s)

HasNewTokens(s) ==
    Contains(s, NewTrain) /\ Contains(s, NewVal) /\ Contains(s, NewTest)

\* C2 as stated: after a run in which nothing raised and the source data.yaml
\* exists, the data.yaml of the archive contains the three rewritten tokens
\* and none of the three original tokens.
C2_Original ==
    (Succeeded /\ Exists(dirs, fs, source_data_yaml)) =>
        /\ YamlArchived
        /\ HasNewTokens(ArchivedYaml)
        /\ HasNoOldToken(ArchivedYaml)

\* C2, amended: after a run in which nothing raised and the source data.yaml
\* exists, the data.yaml of the archive contains none of the three original
\* tokens, and it contains the rewritten token of every original token that
\* occurs in the source data.yaml: all three when the source has all three.
C2_Rewritten ==
    (Succeeded /\ Exists(dirs, fs, source_data_yaml)) =>
        /\ YamlArchived
        /\ HasNoOldToken(ArchivedYaml)
        /\ Contains(SourceYaml, OldTrain) => Contains(ArchivedYaml, NewTrain)
        /\ Contains(SourceYaml, OldVal) => Contains(ArchivedYaml, NewVal)
        /\ Contains(SourceYaml, OldTest) => Contains(ArchivedYaml, NewTest)

\* A run on a data.yaml with the three original lines has succeeded and the
\* archive holds the rewritten text.
C2_Witness ==
    /\ YamlArchived
    /\ Contains(SourceYaml, OldTrain)
    /\ Contains(SourceYaml, OldVal)
    /\ Contains(SourceYaml, OldTest)
    /\ HasNewTokens(ArchivedYaml)
    /\ ArchivedYaml # SourceYaml

-----------------------------------------------------------------------------
(* C3 *)

\* C3: the runs that archive a destination tree all archive the same image
\* files with the same contents; after every run in which nothing raised
\* colab_dataset/ does not exist; and when the reset step of a run has
\* completed the destination tree holds the three empty image folders and
\* no file, whatever was there before.
C3_Rerun ==
    /\ \A i, j \in 1..Len(copied) : copied[i] = copied[j]
    /\ Succeeded => ~Exists(dirs, fs, colab_dir)
    /\ pc = After("reset") =>
          /\ RGlobFiles(fs, colab_dir) = {}
          /\ {colab_train, colab_valid, colab_test} \subseteq dirs

\* Two runs have archived images, the second has succeeded.
C3_Witness ==
    /\ Succeeded
    /\ run = 2
    /\ Len(copied) = 2
    /\ DOMAIN copied[1] # {}
    /\ ~Exists(dirs, fs, colab_dir)

-----------------------------------------------------------------------------
(* C4 *)

\* C4: a step that finds the image folder of its split missing raises
\* nothing, prints the warning of the split, changes no file and passes
\* control to the next step; and a run in which nothing raised and a split
\* folder was missing has printed the warning and archived every image of
\* the other splits.
C4_MissingSplit ==
    /\ [][\A s \in Splits :
            (pc = StepOf(s) /\ ~Exists(dirs, fs, SourceOf(s))) =>
                /\ pc' = After(StepOf(s))
                /\ log' = Append(log, "warn_" \o s)
                /\ exc' = ""
                /\ fs' = fs]_vars
    /\ [](Succeeded =>
            \A t \in Splits :
                ~Exists(dirs, fs, SourceOf(t)) =>
                    /\ InLog("warn_" \o t)
                    /\ \A s \in Splits \ {t} : ImagesArchived(s))

\* A run without the train folder has succeeded; the validation and test
\* images are in the archive.
C4_Witness ==
    /\ Succeeded
    /\ ~Exists(dirs, fs, source_train)
    /\ InLog("warn_train")
    /\ SourceJpgs("valid") # {}
    /\ SourceJpgs("test") # {}
    /\ ImagesArchived("valid")
    /\ ImagesArchived("test")

-----------------------------------------------------------------------------
(* C5 *)

\* C5: the configuration step that finds the source data.yaml missing raises
\* nothing, prints the error message, changes no file and passes control to
\* the weights step; and a run in which nothing raised and data.yaml was
\* missing has printed the message, copied the weights when present, written
\* an archive without a colab_dataset/data.yaml entry and removed the
\* destination tree.
C5_MissingYaml ==
    /\ [][(pc = "config" /\ ~Exists(dirs, fs, source_data_yaml)) =>
                /\ pc' = After("config")
                /\ log' = Append(log, "yaml_missing")
                /\ exc' = ""
                /\ fs' = fs]_vars
    /\ []((Succeeded /\ ~Exists(dirs, fs, source_data_yaml)) =>
            /\ InLog("yaml_missing")
            /\ Attempted("archive")
            /\ Attempted("cleanup")
            /\ archive.exists
            /\ ArcName(data_yaml_path) \notin DOMAIN archive.entries
            /\ Exists(dirs, fs, yolov8m_path) =>
                  InArchive(colab_dir \o yolov8m_path, fs[yolov8m_path])
            /\ ~Exists(dirs, fs, colab_dir))

\* A run without data.yaml, started over a destination tree that held an old
\* data.yaml, has succeeded.
C5_Witness ==
    /\ Succeeded
    /\ ~Exists(dirs, fs, source_data_yaml)
    /\ InLog("yaml_missing")
    /\ InLog("cleaned")
    /\ Exists(dirs, fs, yolov8m_path)
    /\ archive.exists
    /\ ArcName(data_yaml_path) \notin DOMAIN archive.entries

-----------------------------------------------------------------------------
(* C6 *)

\* C6, for a bundle of the images folder (entries named images/<file>):
\* after a run in which nothing raised, the bundle has been expanded and
\* every .jpg entry of it is in the source training images folder and in the
\* archive below the destination train folder, whether or not the training
\* images folder existed before the run.
C6_BundleCopied ==
    (Succeeded /\ bundle.exists) =>
        \A n \in DOMAIN bundle.entries :
            (Len(n) = 2 /\ n[1] = "images" /\ n[2] \in JpgNames) =>
                /\ Attempted("expand")
                /\ Exists(dirs, fs, source_train \o <<n[2]>>)
                /\ InArchive(colab_train \o <<n[2]>>, bundle.entries[n])

-----------------------------------------------------------------------------
(* C7 *)

\* C7: no step is attempted twice in a run; once a step has raised, it is
\* the last step attempted, control is in the handler of main or main has
\* returned, the archive write and the cleanup have not been attempted if
\* they come after the step that raised; and main returns from a failed run
\* having printed the failure message and the hints, not the success message.
C7_AbortAndCatch ==
    /\ \A i, j \in 1..Len(trace) : i # j => trace[i] # trace[j]
    /\ pc \in StepSet \cup {"idle", "return", "except"}
    /\ exc # "" =>
          /\ pc \in {"except", "idle"}
          /\ Len(trace) >= 1
          /\ trace[Len(trace)] = exc
          /\ Rank(exc) < Rank("archive") => ~Attempted("archive")
          /\ Rank(exc) < Rank("cleanup") => ~Attempted("cleanup")
    /\ Failed => InLog("error") /\ InLog("hints") /\ ~InLog("success")

\* The validation copy has raised after copying a file; main has returned
\* and the partial destination tree is still there.
C7_Witness ==
    /\ Failed
    /\ exc = "copy_valid"
    /\ InLog("error")
    /\ Exists(dirs, fs, colab_dir)
    /\ RGlobFiles(fs, colab_valid) # {}
    /\ ~Attempted("archive")

-----------------------------------------------------------------------------
(* C8 *)

\* C8: the steps of a run are attempted in the order of Steps; the archive
\* write is attempted only when no earlier step has raised and every copy
\* step whose source exists has been done; when the cleanup is about to run
\* the archive holds every file of the destination tree; and when the
\* archive write raises the destination tree is not deleted.
C8_Order ==
    /\ \A i \in 1..(Len(trace) - 1) : Rank(trace[i]) < Rank(trace[i + 1])
    /\ Attempted("archive") =>
          /\ exc = "" \/ Rank(exc) >= Rank("archive")
          /\ Attempted("reset")
          /\ \A s \in Splits :
                Exists(dirs, fs, SourceOf(s)) => Attempted(StepOf(s))
          /\ Exists(dirs, fs, source_data_yaml) => Attempted("config")
          /\ Exists(dirs, fs, yolov8m_path) => Attempted("weights")
    /\ pc = "cleanup" => archive = ZipOf(fs, RGlobFiles(fs, colab_dir))
    /\ Attempted("cleanup") => Attempted("archive") /\ exc # "archive"
    /\ exc = "archive" => Exists(dirs, fs, colab_dir)

\* A run that performed every step has succeeded.
C8_Witness == Succeeded /\ trace = Steps

-----------------------------------------------------------------------------
(* C9 *)

\* The configuration step of the current run has completed and the
\* destination copy is still there.
ConfigDone ==
    /\ Attempted("config")
    /\ exc # "config"
    /\ Exists(dirs, fs, source_data_yaml)
    /\ data_yaml_path \in DOMAIN fs

SourceLines == SplitLines(fs[source_data_yaml])

DestLines == SplitLines(fs[data_yaml_path])

\* A line that declares the train, val or test path: it starts with the key.
IsDeclaration(line) ==
    Len(line) >= 1 /\ line[1] \in {"train: ", "val: ", "test: "}

\* C9 as stated: the rewrite touches only the train:, val: and test: path
\* declarations; every other line of the source data.yaml is unchanged in
\* the destination copy, for any source text.
C9_Original ==
    ConfigDone =>
        /\ Len(DestLines) = Len(SourceLines)
        /\ \A i \in 1..Len(SourceLines) :
              ~IsDeclaration(SourceLines[i]) => DestLines[i] = SourceLines[i]

\* C9, amended: the rewrite touches only the lines in which one of the three
\* literal tokens occurs, wherever in the line it occurs; every line of the
\* source data.yaml without such an occurrence is unchanged, at the same
\* position, in the destination copy, for any source text.
C9_OnlyTokenLines ==
    ConfigDone =>
        /\ Len(DestLines) = Len(SourceLines)
        /\ \A i \in 1..Len(SourceLines) :
              ~ContainsOld(SourceLines[i]) => DestLines[i] = SourceLines[i]

\* The rewrite has run on a text with a line it changes and a line with a
\* path that is not one of the literals, which it leaves alone.
C9_Witness ==
    /\ ConfigDone
    /\ \E i \in 1..Len(SourceLines) :
          /\ SourceLines[i] = <<"train: ", "../", "train/images">>
          /\ DestLines[i] = SourceLines[i]
    /\ \E i \in 1..Len(SourceLines) :
          /\ ContainsOld(SourceLines[i])
          /\ DestLines[i] # SourceLines[i]

-----------------------------------------------------------------------------
(* C10 *)

\* C10: as long as the archive step of the current run has not been
\* attempted, colab_dataset.zip is what it was when the run started; so it
\* is after a run that raised before the archive step.
C10_ArchiveUntouched == ~Attempted("archive") => archive = archive0

\* A second run has raised before its archive step; the archive at the
\* invocation root is the one the first run wrote.
C10_Witness ==
    /\ Failed
    /\ run = 2
    /\ Rank(exc) < Rank("archive")
    /\ Len(copied) = 1
    /\ archive.exists
    /\ archive = archive0

=============================================================================
